---- MODULE Spec2Model ----
(***************************************************************************)
(* Quiz attempt grading, persistence and result reconciliation of the      *)
(* quiz-app backend (controllers/quizController.js, models/QuizAttempt.js, *)
(* models/Quiz.js), its deletion cascades (controllers/adminController.js) *)
(* and the analytics of a user (controllers/userController.js).            *)
(*                                                                         *)
(* JavaScript values are tagged records, strings are sequences of          *)
(* one-character strings, and documents are records whose DOMAIN is the    *)
(* set of paths the Mongoose schema declares.                              *)
(***************************************************************************)
EXTENDS Integers, Sequences, FiniteSets, TLC

VARIABLES
  quiz,      \* the Quiz document: [questions |-> sequence of question subdocuments]
  attempts,  \* the QuizAttempt collection, a sequence of documents; _id = index
  inbox,     \* submit requests in flight (POST /api/quizzes/:id/attempt)
  req,       \* the request answered by the last submit response, or NoRequest
  res,       \* the last submit response [status, data], or NoResponse
  prepared,  \* attemptData of the last submit as built at quizController.js 398-407
  rec,       \* one record per concurrent GET /attempt/:attemptId/results request
  quizIds,   \* the _ids of the documents of the Quiz collection
  userIds,   \* the _ids of the documents of the User collection
  out        \* the last response of a delete or analytics endpoint, or NoOutcome

vars == <<quiz, attempts, inbox, req, res, prepared, rec, quizIds, userIds, out>>

----------------------------------------------------------------------------
(* Bounds of the model *)

\* longest responses array of a submit request
MaxResponses == 2
\* largest number of questions of a quiz
MaxQuestions == 3
\* number of concurrent results requests for the stored attempt
NumReconcilers == 2
\* number of submissions in a run with deletions and analytics
NumSubmissions == 2

----------------------------------------------------------------------------
(* JavaScript values *)

Num(n) == [t |-> "number", v |-> n]
Str(s) == [t |-> "string", v |-> s]
Null == [t |-> "null"]
Undefined == [t |-> "undefined"]
NaN == [t |-> "NaN"]

IsNum(x) == x.t = "number"
IsStr(x) == x.t = "string"

Digits == <<"0", "1", "2", "3", "4", "5", "6", "7", "8", "9">>
IsDigit(c) == \E i \in 1..10 : Digits[i] = c
DigitVal(c) == (CHOOSE i \in 1..10 : Digits[i] = c) - 1

UpperCase == <<"A","B","C","D","E","F","G","H","I","J","K","L","M",
               "N","O","P","Q","R","S","T","U","V","W","X","Y","Z">>
LowerCase == <<"a","b","c","d","e","f","g","h","i","j","k","l","m",
               "n","o","p","q","r","s","t","u","v","w","x","y","z">>

IsSpace(c) == c \in {" ", "\t", "\n"}

\* String.prototype.toLowerCase
LowerChar(c) ==
  IF \E i \in 1..26 : UpperCase[i] = c
    THEN LowerCase[CHOOSE i \in 1..26 : UpperCase[i] = c]
    ELSE c
toLowerCase(s) == [i \in 1..Len(s) |-> LowerChar(s[i])]

\* String.prototype.trim
RECURSIVE TrimLeft(_)
TrimLeft(s) ==
  IF s # <<>> /\ IsSpace(Head(s)) THEN TrimLeft(Tail(s)) ELSE s
RECURSIVE TrimRight(_)
TrimRight(s) ==
  IF s # <<>> /\ IsSpace(s[Len(s)]) THEN TrimRight(SubSeq(s, 1, Len(s) - 1)) ELSE s
trim(s) == TrimRight(TrimLeft(s))

\* Number.prototype.toString of a non-negative integer
RECURSIVE NatToString(_)
NatToString(n) ==
  IF n < 10 THEN <<Digits[n + 1]>>
  ELSE Append(NatToString(n \div 10), Digits[(n % 10) + 1])

\* x.toString() for the values that have one (numbers and strings)
toString(x) == IF IsNum(x) THEN NatToString(x.v) ELSE x.v

\* String(x), the conversion parseInt applies to its argument
ToStringAny(x) ==
  CASE x.t = "number" -> NatToString(x.v)
    [] x.t = "string" -> x.v
    [] x.t = "null" -> <<"n", "u", "l", "l">>
    [] x.t = "undefined" -> <<"u", "n", "d", "e", "f", "i", "n", "e", "d">>
    [] OTHER -> <<"N", "a", "N">>

\* the value of the longest prefix of digits of s, acc the value read so far
RECURSIVE DigitPrefix(_, _)
DigitPrefix(s, acc) ==
  IF s # <<>> /\ IsDigit(Head(s))
    THEN DigitPrefix(Tail(s), 10 * acc + DigitVal(Head(s)))
    ELSE acc

\* parseInt(x): skip leading white space, read the leading decimal digits,
\* ignore whatever follows them; NaN when there is no leading digit
parseInt(x) ==
  LET s == TrimLeft(ToStringAny(x))
      neg == s # <<>> /\ Head(s) = "-"
      u == IF s # <<>> /\ Head(s) \in {"-", "+"} THEN Tail(s) ELSE s
  IN IF u # <<>> /\ IsDigit(Head(u))
       THEN Num(IF neg THEN 0 - DigitPrefix(u, 0) ELSE DigitPrefix(u, 0))
       ELSE NaN

\* a === b on the results of parseInt: NaN equals nothing, itself included
StrictEqual(a, b) == a.t # "NaN" /\ b.t # "NaN" /\ a = b

\* Math.round((a / b) * 100) for integers a >= 0, b >= 0: 0/0 is NaN and
\* Math.round rounds halves up
RoundPercent(a, b) ==
  IF b = 0
    THEN (IF a = 0 THEN NaN ELSE [t |-> "Infinity"])
    ELSE Num((200 * a + b) \div (2 * b))

----------------------------------------------------------------------------
(* Documents *)

\* the record r without the fields outside S: what Mongoose's strict mode
\* keeps of an object handed to a schema whose paths are S
Restrict(r, S) == [f \in (DOMAIN r) \cap S |-> r[f]]

sParis == <<"P", "a", "r", "i", "s">>

\* The questions an author can put at position i of a quiz. Each satisfies
\* the validators of QuizSchema.questions: an MCQ has an integer
\* correctAnswer in 0..3, a Fill a non-empty string, marks >= 1.
Question(i) ==
  CASE i = 1 -> [id |-> 1, type |-> "MCQ", correctAnswer |-> Num(2), marks |-> 1]
    [] i = 2 -> [id |-> 2, type |-> "Fill", correctAnswer |-> Str(sParis), marks |-> 2]
    [] OTHER -> [id |-> i, type |-> "MCQ", correctAnswer |-> Num(0), marks |-> 5]

QuizOfLen(n) == [questions |-> [i \in 1..n |-> Question(i)]]
\* the _id of the quiz, its author (createdBy), the registered users and the
\* administrator (scripts/createAdmin.js)
QuizId == "quiz1"
CreatedBy == "user1"
Users == {"user1", "user2"}
AdminId == "admin1"
Role(u) == IF u = AdminId THEN "admin" ELSE "user"

\* the place of a deleted document of the QuizAttempt collection (the _ids of
\* the other documents stay what they are)
Gone == [gone |-> TRUE]
IsStored(doc) == doc # Gone

\* the quiz of n questions after its author changed the key of question 1
QuizRekeyed(n) ==
  [questions |-> [i \in 1..n |->
     IF i = 1 THEN [Question(1) EXCEPT !.correctAnswer = Num(0)] ELSE Question(i)]]
Quizzes == {QuizOfLen(n) : n \in 0..MaxQuestions}

QuestionIds(q) == {q.questions[i].id : i \in 1..Len(q.questions)}

\* a questionId that is the _id of no question of any quiz
UnknownId == MaxQuestions + 1

\* paths of QuizAttemptSchema and of its responses subdocuments
AttemptPaths == {"user", "quiz", "score", "totalQuestions", "percentage", "responses"}
ResponsePaths == {"questionId", "selectedAnswer", "isCorrect"}

----------------------------------------------------------------------------
(* Grading: submitQuizAttempt, quizController.js 335-393 *)

\* quiz.questions.find(q => q._id.toString() === response.questionId):
\* the first question with that id, Undefined when there is none
FindQuestion(questions, id) ==
  IF \E i \in 1..Len(questions) : questions[i].id = id
    THEN questions[CHOOSE i \in 1..Len(questions) :
                     /\ questions[i].id = id
                     /\ \A j \in 1..(i - 1) : questions[j].id # id]
    ELSE Undefined

\* case 'MCQ': parseInt(question.correctAnswer) === parseInt(userAnswer)
McqCorrect(correctAnswer, userAnswer) ==
  StrictEqual(parseInt(correctAnswer), parseInt(userAnswer))

\* !question.correctAnswer for the values a correctAnswer takes
Falsy(x) ==
  \/ x.t \in {"null", "undefined", "NaN"}
  \/ (IsStr(x) /\ x.v = <<>>)
  \/ (IsNum(x) /\ x.v = 0)

\* FillCorrect without .trim()
FillCorrectNoTrim(correctAnswer, userAnswer) ==
  IF Falsy(correctAnswer) \/ userAnswer = Null \/ userAnswer = Undefined
    THEN FALSE
    ELSE toLowerCase(toString(correctAnswer)) = toLowerCase(toString(userAnswer))

\* case 'Fill': case-insensitive comparison of the trimmed strings
FillCorrect(correctAnswer, userAnswer) ==
  IF Falsy(correctAnswer) \/ userAnswer = Null \/ userAnswer = Undefined
    THEN FALSE
    ELSE trim(toLowerCase(toString(correctAnswer)))
           = trim(toLowerCase(toString(userAnswer)))

\* the switch on question.type
IsCorrect(question, userAnswer) ==
  CASE question.type = "MCQ" -> McqCorrect(question.correctAnswer, userAnswer)
    [] question.type = "Fill" -> FillCorrect(question.correctAnswer, userAnswer)
    [] OTHER -> FALSE

\* question.marks || 1
MarksOr1(question) == IF question.marks = 0 THEN 1 ELSE question.marks

\* ProcessResponse keeping a response to an unknown question as incorrect
ProcessResponseKeepUnknown(questions, response) ==
  LET question == FindQuestion(questions, response.questionId) IN
    [questionId |-> response.questionId,
     selectedAnswer |-> response.selectedAnswer,
     isCorrect |-> question # Undefined /\ IsCorrect(question, response.selectedAnswer),
     questionType |-> IF question = Undefined THEN "none" ELSE question.type,
     correctAnswer |-> IF question = Undefined THEN Undefined ELSE question.correctAnswer]

\* the callback of responses.map: Null for a response whose question is not
\* in the quiz, otherwise the processed response
ProcessResponse(questions, response) ==
  LET question == FindQuestion(questions, response.questionId) IN
    IF question = Undefined
      THEN Null
      ELSE [questionId |-> response.questionId,
            selectedAnswer |-> response.selectedAnswer,
            isCorrect |-> IsCorrect(question, response.selectedAnswer),
            questionType |-> question.type,
            correctAnswer |-> question.correctAnswer]

\* responses.map(...).filter(Boolean)
RECURSIVE ProcessedResponses(_, _)
ProcessedResponses(questions, responses) ==
  IF responses = <<>> THEN <<>>
  ELSE LET p == ProcessResponse(questions, Head(responses))
           rest == ProcessedResponses(questions, Tail(responses))
       IN IF p = Null THEN rest ELSE <<p>> \o rest

\* Score adding 1 instead of the question's marks for a correct response
RECURSIVE ScoreByCount(_, _)
ScoreByCount(questions, responses) ==
  IF responses = <<>> THEN 0
  ELSE LET question == FindQuestion(questions, Head(responses).questionId)
           gained == IF question # Undefined
                        /\ IsCorrect(question, Head(responses).selectedAnswer)
                       THEN 1 ELSE 0
       IN gained + ScoreByCount(questions, Tail(responses))

\* score after the map: question.marks || 1 added for every response found correct
RECURSIVE Score(_, _)
Score(questions, responses) ==
  IF responses = <<>> THEN 0
  ELSE LET question == FindQuestion(questions, Head(responses).questionId)
           gained == IF question # Undefined
                        /\ IsCorrect(question, Head(responses).selectedAnswer)
                       THEN MarksOr1(question) ELSE 0
       IN gained + Score(questions, Tail(responses))

\* quiz.questions.reduce((sum, q) => sum + (q.marks || 1), 0)
RECURSIVE TotalMarks(_)
TotalMarks(questions) ==
  IF questions = <<>> THEN 0
  ELSE MarksOr1(Head(questions)) + TotalMarks(Tail(questions))

\* a request without a token carries no user: req.user is undefined
Anonymous == "anonymous"

\* new mongoose.Types.ObjectId(): an id no document and no earlier call has
NewObjectId == "oid" \o ToString(Len(attempts) + 1)

\* attemptData, quizController.js 398-407
AttemptData(q, r) ==
  [quiz |-> QuizId,
   user |-> IF r.user = Anonymous THEN NewObjectId ELSE r.user,
   score |-> Score(q.questions, r.responses),
   totalMarks |-> TotalMarks(q.questions),
   totalQuestions |-> Len(q.questions),
   responses |-> ProcessedResponses(q.questions, r.responses)]

----------------------------------------------------------------------------
(* Persistence of an attempt: models/QuizAttempt.js *)

\* new QuizAttempt(data): the paths of the schema only, percentage defaulting to 0
CastAttempt(data) ==
  LET kept == Restrict(data, AttemptPaths) IN
    [f \in AttemptPaths |->
       CASE f = "responses" ->
              [i \in 1..Len(kept.responses) |-> Restrict(kept.responses[i], ResponsePaths)]
         [] f = "percentage" -> 0
         [] OTHER -> kept[f]]

\* QuizAttemptSchema.pre('save'), lines 60-65
PreSave(doc) ==
  IF doc.totalQuestions > 0
    THEN [doc EXCEPT !.percentage = RoundPercent(doc.score, doc.totalQuestions).v]
    ELSE doc

\* QuizAttempt.create(attemptData)
CreateAttempt(data) == PreSave(CastAttempt(data))

----------------------------------------------------------------------------
(* Result reconciliation: getQuizAttemptById, quizController.js 470-580 *)

\* attempt.quiz.questions.reduce((sum, question) => sum + (question.marks || 0), 0)
RECURSIVE TotalPossibleScore(_)
TotalPossibleScore(questions) ==
  IF questions = <<>> THEN 0
  ELSE Head(questions).marks + TotalPossibleScore(Tail(questions))

\* calculatedPercentage, lines 509-515
CalculatedPercentage(score, totalPossibleScore) ==
  LET p == IF totalPossibleScore > 0
             THEN RoundPercent(score, totalPossibleScore)
             ELSE Num(0)
  IN IF IsNum(p) THEN p.v ELSE 0

\* UpdateAttempt with $inc in place of $set
UpdateAttemptInc(doc, set) ==
  [f \in DOMAIN doc |->
     IF f \in (DOMAIN set) \cap AttemptPaths THEN doc[f] + set[f] ELSE doc[f]]

\* UpdateAttempt writing the percentage into score as well
UpdateAttemptIntoScore(doc, set) ==
  [f \in DOMAIN doc |->
     IF f \in (DOMAIN set) \cap AttemptPaths THEN set[f]
     ELSE IF f = "score" THEN set.percentage ELSE doc[f]]

\* UpdateAttempt grading the stored responses again with the current quiz
UpdateAttemptRegrade(doc, set) ==
  [f \in DOMAIN doc |->
     IF f \in (DOMAIN set) \cap AttemptPaths THEN set[f]
     ELSE IF f = "responses"
       THEN [i \in 1..Len(doc.responses) |->
               LET question == FindQuestion(quiz.questions, doc.responses[i].questionId) IN
                 IF question = Undefined THEN doc.responses[i]
                 ELSE [doc.responses[i] EXCEPT
                         !.isCorrect = IsCorrect(question, doc.responses[i].selectedAnswer)]]
       ELSE doc[f]]

\* QuizAttempt.findByIdAndUpdate(id, { $set: set }): strict mode sets the
\* paths of the schema and drops the others
UpdateAttempt(doc, set) ==
  [f \in DOMAIN doc |->
     IF f \in (DOMAIN set) \cap AttemptPaths THEN set[f] ELSE doc[f]]

\* enhancedResponses, lines 534-547: the stored response with the current
\* question's type and correctAnswer (Undefined when the question is gone)
EnhancedResponses(responses, questions) ==
  [i \in 1..Len(responses) |->
     LET question == FindQuestion(questions, responses[i].questionId) IN
       [questionId |-> responses[i].questionId,
        selectedAnswer |-> responses[i].selectedAnswer,
        isCorrect |-> responses[i].isCorrect,
        questionType |-> IF question = Undefined THEN Undefined ELSE Str(question.type),
        correctAnswer |-> IF question = Undefined THEN Undefined
                          ELSE question.correctAnswer,
        marks |-> IF question = Undefined THEN 1 ELSE MarksOr1(question)]]

\* responseData, lines 550-562, of the attempt read with its quiz populated
ResponseData(id, attempt, questions) ==
  [_id |-> id,
   score |-> attempt.score,
   totalMarks |-> IF "totalMarks" \in DOMAIN attempt
                    THEN Num(attempt.totalMarks) ELSE Undefined,
   totalPossibleScore |-> TotalPossibleScore(questions),
   percentage |-> attempt.percentage,
   responses |-> EnhancedResponses(attempt.responses, questions)]

----------------------------------------------------------------------------
(* Requests *)

Answers ==
  {Num(0), Num(2), Str(<<"2">>), Str(<<"2", "x">>),
   Str(<<" ", "p", "a", "r", "i", "s", " ">>), Null, Undefined}

ResponsesOver(ids) == [questionId : ids, selectedAnswer : Answers]

SeqsUpTo(S, n) == UNION {[1..k -> S] : k \in 0..n}

\* every submit request a client that loaded quiz q can send: no responses
\* array (a body without responses or with one that is no array, the two
\* cases of line 312), or up to MaxResponses entries, each null or a response to one of
\* its questions or to an unknown question id
RequestsFor(q) ==
  {[user |-> "user1"]} \cup
  {[user |-> "user1", responses |-> rs] :
     rs \in SeqsUpTo(ResponsesOver(QuestionIds(q) \cup {UnknownId}) \cup {Null},
                     MaxResponses)}

\* the submissions of the scenarios of the specification
ScenarioRequests ==
  {[user |-> "user1",
    responses |-> <<[questionId |-> 1, selectedAnswer |-> Num(2)],
                    [questionId |-> 2,
                     selectedAnswer |-> Str(<<" ", "p", "a", "r", "i", "s", " ">>)]>>],
   [user |-> "user1",
    responses |-> <<[questionId |-> 1, selectedAnswer |-> Num(0)]>>],
   [user |-> "user1",
    responses |-> <<[questionId |-> 1, selectedAnswer |-> Str(<<"2">>)]>>]}

NoRequest == [user |-> "none"]
NoResponse == [status |-> 0]
NoOutcome == [op |-> "none", status |-> 0]
Idle == [pc |-> "idle"]
Reconcilers == 1..NumReconcilers

----------------------------------------------------------------------------
(* Actions *)

\* GradeAndStore creating the attempt twice
GradeAndStoreTwice(r) ==
  \E attemptData \in {AttemptData(quiz, r)} :
  \E quizAttempt \in {CreateAttempt(attemptData)} :
    /\ attempts' = Append(Append(attempts, quizAttempt), quizAttempt)
    /\ prepared' = attemptData
    /\ res' = [status |-> 201,
               data |-> [f \in (DOMAIN quizAttempt) \cup {"_id"} |->
                           IF f = "_id" THEN Len(attempts) + 1 ELSE quizAttempt[f]]]

\* the body of the try block once the request is validated, lines 320-421:
\* grade, create the attempt, answer 201 with the document and the percentage
GradeAndStore(r) ==
  \E attemptData \in {AttemptData(quiz, r)} :
  \E quizAttempt \in {CreateAttempt(attemptData)} :
    /\ attempts' = Append(attempts, quizAttempt)
    /\ prepared' = attemptData
    /\ res' = [status |-> 201,
               data |-> [f \in (DOMAIN quizAttempt) \cup {"_id", "percentage"} |->
                           CASE f = "_id" -> Len(attempts) + 1
                             [] f = "percentage" ->
                                  RoundPercent(attemptData.score, attemptData.totalMarks)
                             [] OTHER -> quizAttempt[f]]]

\* POST /api/quizzes/:id/attempt, submitQuizAttempt lines 270-446, for the
\* request at the head of the inbox: 401 from protect (middleware/auth.js
\* lines 15-35) without a token or when the user of the token is gone, 400
\* when responses is no
\* array, 500 when reading response.questionId of a null entry throws (lines
\* 296, 341), 404 when findById gives no quiz (lines 323-330), otherwise 201
SubmitQuizAttempt ==
  /\ inbox # <<>>
  /\ \E r \in {Head(inbox)} :
       /\ req' = r
       /\ IF r.user \notin userIds
            THEN res' = [status |-> 401] /\ UNCHANGED <<attempts, prepared>>
            ELSE IF "responses" \notin DOMAIN r
            THEN res' = [status |-> 400] /\ UNCHANGED <<attempts, prepared>>
            ELSE IF \E i \in 1..Len(r.responses) : r.responses[i] = Null
              THEN res' = [status |-> 500] /\ UNCHANGED <<attempts, prepared>>
              ELSE IF QuizId \notin quizIds
                THEN res' = [status |-> 404] /\ UNCHANGED <<attempts, prepared>>
                ELSE GradeAndStore(r)
  /\ inbox' = Tail(inbox)
  /\ UNCHANGED <<quiz, rec, quizIds, userIds, out>>

\* PUT /api/quizzes/:id, updateQuiz lines 192-226: findByIdAndUpdate replaces
\* the questions by the request body's
UpdateQuiz(q) ==
  /\ q # quiz
  /\ quiz' = q
  /\ UNCHANGED <<attempts, inbox, req, res, prepared, rec, quizIds, userIds, out>>

\* getQuizAttemptById lines 485-518: read the attempt with its quiz
\* populated, compute totalPossibleScore and calculatedPercentage and set
\* attempt.percentage on the local copy. The route (GET
\* /attempt/:attemptId/results) is registered without protect: the handler
\* runs for a caller with a token and for one without
ReconcileRead(p, caller, id) ==
  /\ rec[p].pc = "idle"
  /\ id \in 1..Len(attempts)
  /\ IsStored(attempts[id])
  /\ QuizId \in quizIds
  /\ LET attempt == attempts[id]
         totalPossibleScore == TotalPossibleScore(quiz.questions)
         calculatedPercentage == CalculatedPercentage(attempt.score, totalPossibleScore)
     IN rec' = [rec EXCEPT ![p] =
                  [pc |-> "read",
                   caller |-> caller,
                   id |-> id,
                   attempt |-> [attempt EXCEPT !.percentage = calculatedPercentage],
                   questions |-> quiz.questions,
                   after |-> Cardinality({o \in Reconcilers : rec[o].pc = "done"})]]
  /\ UNCHANGED <<quiz, attempts, inbox, req, res, prepared, quizIds, userIds, out>>

\* an :attemptId that is no ObjectId, and the ObjectId of no stored attempt
MalformedId == <<"a", "b", "c">>
MissingId(docs) == NatToString(Len(docs) + 1)

\* mongoose.Types.ObjectId.isValid(attemptId), line 477: the _ids of the
\* model are the decimal numerals of the positions in the collection
IsValidObjectId(s) == s # <<>> /\ \A i \in 1..Len(s) : IsDigit(s[i])

\* LookupStatus without the check of the format: findById throws a CastError
LookupStatusUnchecked(attemptId, docs) ==
  IF ~IsValidObjectId(attemptId) THEN 500
  ELSE IF DigitPrefix(attemptId, 0) \notin 1..Len(docs) THEN 404
  ELSE IF ~IsStored(docs[DigitPrefix(attemptId, 0)]) THEN 404
  ELSE 200

\* lines 476-501: 400 for an id of invalid format, 404 when findById gives
\* no attempt, otherwise the handler goes on (200)
LookupStatus(attemptId, docs) ==
  IF ~IsValidObjectId(attemptId) THEN 400
  ELSE IF DigitPrefix(attemptId, 0) \notin 1..Len(docs) THEN 404
  ELSE IF ~IsStored(docs[DigitPrefix(attemptId, 0)]) THEN 404
  ELSE 200

\* getQuizAttemptById lines 474-501 for an attemptId that resolves to no
\* attempt: the early returns
ReconcileReject(p, attemptId) ==
  /\ rec[p].pc = "idle"
  /\ LookupStatus(attemptId, attempts) # 200
  /\ rec' = [rec EXCEPT ![p] =
               [pc |-> "failed",
                attemptId |-> attemptId,
                status |-> LookupStatus(attemptId, attempts)]]
  /\ UNCHANGED <<quiz, attempts, inbox, req, res, prepared, quizIds, userIds, out>>

\* getQuizAttemptById lines 520-570: write percentage and totalMarks back and
\* answer with responseData
ReconcileWrite(p) ==
  /\ rec[p].pc = "read"
  /\ LET l == rec[p]
         set == [percentage |-> l.attempt.percentage,
                 totalMarks |-> TotalPossibleScore(l.questions)]
     IN /\ attempts' = [attempts EXCEPT ![l.id] = UpdateAttempt(@, set)]
        /\ rec' = [rec EXCEPT ![p] =
                     [pc |-> "done",
                      caller |-> l.caller,
                      id |-> l.id,
                      questions |-> l.questions,
                      after |-> l.after,
                      updated |-> TRUE,
                      status |-> 200,
                      data |-> ResponseData(l.id, l.attempt, l.questions)]]
  /\ UNCHANGED <<quiz, inbox, req, res, prepared, quizIds, userIds, out>>

\* the request that read l answering 500 once its update has thrown
UpdateErrorSurfaced(l) ==
  [pc |-> "done", caller |-> l.caller, id |-> l.id, questions |-> l.questions, after |-> l.after,
   updated |-> FALSE, status |-> 500]

\* lines 527-570 for the request that read l: the catch of the inner try logs
\* the error of findByIdAndUpdate, and the handler answers with responseData
UpdateErrorCaught(l) ==
  [pc |-> "done", caller |-> l.caller, id |-> l.id, questions |-> l.questions, after |-> l.after,
   updated |-> FALSE, status |-> 200,
   data |-> ResponseData(l.id, l.attempt, l.questions)]

\* getQuizAttemptById lines 520-570 when findByIdAndUpdate throws (the
\* database is unreachable, the write is refused): nothing is stored
ReconcileWriteFails(p) ==
  /\ rec[p].pc = "read"
  /\ rec' = [rec EXCEPT ![p] = UpdateErrorCaught(rec[p])]
  /\ UNCHANGED <<quiz, attempts, inbox, req, res, prepared, quizIds, userIds, out>>

----------------------------------------------------------------------------
(* Deletion cascades: quizController.deleteQuiz, adminController.deleteQuiz *)
(* and adminController.deleteUser                                           *)

\* QuizAttempt.deleteMany({ [path]: value }).  A path of the schema selects
\* the documents that hold value there.  No document holds a path the schema
\* does not declare: with strictQuery Mongoose strips the path from the
\* filter, which then selects every document, without it the filter reaches
\* MongoDB as written and selects none.
DeleteMany(docs, path, value, strictQuery) ==
  [i \in 1..Len(docs) |->
     IF path \in AttemptPaths
       THEN IF IsStored(docs[i]) /\ docs[i][path] = value THEN Gone ELSE docs[i]
       ELSE IF strictQuery THEN Gone ELSE docs[i]]

\* CascadeOutcome going on after a step that failed and answering 200
CascadeOutcomeSwallowed(names, failAt) ==
  [steps |-> SelectSeq(names, LAMBDA n : failAt = 0 \/ n # names[failAt]),
   failed |-> IF failAt = 0 THEN "none" ELSE names[failAt],
   status |-> 200]

\* the awaited steps of a delete handler, in the order of the source, run
\* inside its try: the step failAt throws (0: none does), the steps before it
\* have taken effect, the catch reports the error (500) and no later step runs
CascadeOutcome(names, failAt) ==
  [steps |-> SubSeq(names, 1, IF failAt = 0 THEN Len(names) ELSE failAt - 1),
   failed |-> IF failAt = 0 THEN "none" ELSE names[failAt],
   status |-> IF failAt = 0 THEN 200 ELSE 500]

Ran(outcome, name) == \E i \in 1..Len(outcome.steps) : outcome.steps[i] = name

\* DELETE /api/quizzes/:id, quizController.deleteQuiz lines 231-265, called
\* by caller: 404 without the quiz, 401 for a caller who is neither its
\* author nor an administrator, then deleteMany({ quizId }) on the attempts
\* and quiz.remove(), a method that Mongoose 7 and later no longer have
\* (hasRemove FALSE: the call throws a TypeError)
DeleteQuiz(caller, strictQuery, hasRemove, failAt) ==
  /\ IF QuizId \notin quizIds
       THEN /\ out' = [op |-> "deleteQuiz", id |-> QuizId, status |-> 404, steps |-> <<>>, failed |-> "none"]
            /\ UNCHANGED <<attempts, quizIds>>
       ELSE IF CreatedBy # caller /\ Role(caller) # "admin"
         THEN /\ out' = [op |-> "deleteQuiz", id |-> QuizId, status |-> 401, steps |-> <<>>, failed |-> "none"]
              /\ UNCHANGED <<attempts, quizIds>>
         ELSE \E outcome \in {CascadeOutcome(<<"attempts", "quiz">>,
                                   IF failAt = 0 /\ ~hasRemove THEN 2 ELSE failAt)} :
                /\ attempts' = IF Ran(outcome, "attempts")
                                 THEN DeleteMany(attempts, "quizId", QuizId, strictQuery)
                                 ELSE attempts
                /\ quizIds' = IF Ran(outcome, "quiz") THEN quizIds \ {QuizId} ELSE quizIds
                /\ out' = [op |-> "deleteQuiz", id |-> QuizId, status |-> outcome.status,
                           steps |-> outcome.steps, failed |-> outcome.failed]
  /\ UNCHANGED <<quiz, inbox, req, res, prepared, rec, userIds>>

\* DELETE /api/admin/quizzes/:id, adminController.deleteQuiz lines 154-180:
\* 404 without the quiz, then deleteMany({ quiz }) on the attempts and
\* quiz.deleteOne(); an error goes to the error handler (500)
AdminDeleteQuiz(failAt) ==
  /\ IF QuizId \notin quizIds
       THEN /\ out' = [op |-> "adminDeleteQuiz", id |-> QuizId, status |-> 404, steps |-> <<>>, failed |-> "none"]
            /\ UNCHANGED <<attempts, quizIds>>
       ELSE \E outcome \in {CascadeOutcome(<<"attempts", "quiz">>, failAt)} :
              /\ attempts' = IF Ran(outcome, "attempts")
                               THEN DeleteMany(attempts, "quiz", QuizId, TRUE)
                               ELSE attempts
              /\ quizIds' = IF Ran(outcome, "quiz") THEN quizIds \ {QuizId} ELSE quizIds
              /\ out' = [op |-> "adminDeleteQuiz", id |-> QuizId, status |-> outcome.status,
                         steps |-> outcome.steps, failed |-> outcome.failed]
  /\ UNCHANGED <<quiz, inbox, req, res, prepared, rec, userIds>>

\* DELETE /api/admin/users/:id, adminController.deleteUser lines 115-149:
\* 404 without the user, then Quiz.deleteMany({ createdBy }),
\* QuizAttempt.deleteMany({ user }) and user.deleteOne()
AdminDeleteUser(u, failAt) ==
  /\ IF u \notin userIds
       THEN /\ out' = [op |-> "adminDeleteUser", id |-> u, status |-> 404, steps |-> <<>>, failed |-> "none"]
            /\ UNCHANGED <<attempts, quizIds, userIds>>
       ELSE \E outcome \in {CascadeOutcome(<<"quizzes", "attempts", "user">>, failAt)} :
              /\ quizIds' = IF Ran(outcome, "quizzes") /\ CreatedBy = u
                              THEN quizIds \ {QuizId} ELSE quizIds
              /\ attempts' = IF Ran(outcome, "attempts")
                               THEN DeleteMany(attempts, "user", u, TRUE)
                               ELSE attempts
              /\ userIds' = IF Ran(outcome, "user") THEN userIds \ {u} ELSE userIds
              /\ out' = [op |-> "adminDeleteUser", id |-> u, status |-> outcome.status,
                         steps |-> outcome.steps, failed |-> outcome.failed]
  /\ UNCHANGED <<quiz, inbox, req, res, prepared, rec>>

----------------------------------------------------------------------------
(* Analytics: userController.getUserAnalytics *)

\* QuizAttempt.find({ [path]: value }).lean(), the filter as in DeleteMany
Find(docs, path, value, strictQuery) ==
  SelectSeq(docs, LAMBDA d :
    IsStored(d) /\ (IF path \in AttemptPaths THEN d[path] = value ELSE strictQuery))

\* .populate({ path: 'quizId' }) on lean documents: quizId is no path of the
\* schema and no document holds it, so nothing is filled in
Populate(docs) ==
  [i \in 1..Len(docs) |->
     [f \in (DOMAIN docs[i]) \cup {"quizId"} |->
        IF f = "quizId" THEN Undefined ELSE docs[i][f]]]

\* lines 237-239: attempt.percentage = (attempt.score / attempt.totalMarks) *
\* 100.  totalMarks is no path of the schema (AttemptPaths), no stored
\* document holds it, and a number divided by undefined is NaN
WithPercentage(attempt) ==
  [f \in (DOMAIN attempt) \cup {"percentage"} |->
     IF f = "percentage" THEN NaN ELSE attempt[f]]

\* lines 242-245: averageScore is the number 0 without attempts, otherwise
\* (totalScore / totalAttempts).toFixed(2), a string; totalScore, a sum of
\* NaN terms, is NaN, and NaN.toFixed(2) is "NaN"
AverageScore(quizAttempts) ==
  IF Len(quizAttempts) > 0 THEN Str(<<"N", "a", "N">>) ELSE Num(0)

\* lines 250-259 and 268-277: attempt.quizId.subject and attempt.quizId.title
\* throw a TypeError for an attempt whose quizId is null or undefined
SubjectLoopThrows(quizAttempts) ==
  \E i \in 1..Len(quizAttempts) : quizAttempts[i].quizId \in {Null, Undefined}

\* the number of attempts of the digest, slice(0, 5) at line 269
RecentLimit == 5

\* lines 268-277: the first RecentLimit attempts in the order find returned
\* them (the query has no sort: the order of insertion), each with its score,
\* percentage and completedAt (here the place in that order)
RecentActivity(quizAttempts) ==
  [i \in 1..(IF Len(quizAttempts) < RecentLimit THEN Len(quizAttempts) ELSE RecentLimit) |->
     [score |-> quizAttempts[i].score,
      percentage |-> quizAttempts[i].percentage,
      completedAt |-> i]]

\* GET /api/users/analytics, getUserAnalytics lines 224-295, for the user u
\* that protect authenticated.  strictQuery as in DeleteMany; with
\* strictPopulate (Mongoose 6 and later) populating documents on a path that
\* is not in the schema throws.  Every error ends in the catch (500).
GetUserAnalytics(u, strictQuery, strictPopulate) ==
  /\ u \in userIds
  /\ \E found \in {Find(attempts, "userId", u, strictQuery)} :
       IF found # <<>> /\ strictPopulate
         THEN out' = [op |-> "analytics", user |-> u, status |-> 500]
         ELSE \E quizAttempts \in {[i \in 1..Len(found) |-> WithPercentage(Populate(found)[i])]} :
                IF SubjectLoopThrows(quizAttempts)
                  THEN out' = [op |-> "analytics", user |-> u, status |-> 500]
                  ELSE out' = [op |-> "analytics", user |-> u, status |-> 200,
                               data |-> [totalAttempts |-> Len(quizAttempts),
                                         averageScore |-> AverageScore(quizAttempts),
                                         subjectPerformance |-> <<>>,
                                         recentActivity |-> RecentActivity(quizAttempts)]]
  /\ UNCHANGED <<quiz, attempts, inbox, req, res, prepared, rec, quizIds, userIds>>

----------------------------------------------------------------------------
(* Specifications *)

\* a quiz as createQuiz stores it (at least one question), one submission in
\* flight, no attempt stored, no results request running
Init ==
  /\ quiz \in Quizzes \ {QuizOfLen(0)}
  /\ \E r \in ScenarioRequests : inbox = <<r>>
  /\ attempts = <<>>
  /\ req = NoRequest
  /\ res = NoResponse
  /\ prepared = NoRequest
  /\ rec = [p \in Reconcilers |-> Idle]
  /\ quizIds = {QuizId}
  /\ userIds = Users
  /\ out = NoOutcome

Next ==
  \/ SubmitQuizAttempt
  \/ \E q \in Quizzes : UpdateQuiz(q)
  \/ \E p \in Reconcilers : \E id \in 1..Len(attempts) : ReconcileRead(p, CreatedBy, id)
  \/ \E p \in Reconcilers : ReconcileWrite(p)

Spec == Init /\ [][Next]_vars

\* results requests for any attempt id, of a stored attempt, of one that an
\* administrator deleted with its quiz, of none, or malformed
NextLookup ==
  \/ SubmitQuizAttempt
  \/ \E failAt \in 0..2 : AdminDeleteQuiz(failAt)
  \/ \E p \in Reconcilers : \E caller \in {CreatedBy, Anonymous} :
       \E id \in 1..Len(attempts) : ReconcileRead(p, caller, id)
  \/ \E p \in Reconcilers : ReconcileWrite(p)
  \/ \E p \in Reconcilers :
       \E attemptId \in {MalformedId} \cup {NatToString(i) : i \in 1..(Len(attempts) + 1)} :
         ReconcileReject(p, attemptId)

SpecLookup == Init /\ [][NextLookup]_vars

\* submissions of the two users, the delete endpoints with a database that
\* may fail at any step, and the analytics endpoint, on every build
InitAdmin ==
  /\ quiz \in {QuizOfLen(1), QuizOfLen(2)}
  /\ inbox \in [1..NumSubmissions -> {[r EXCEPT !.user = u] : r \in ScenarioRequests, u \in Users}]
  /\ attempts = <<>>
  /\ req = NoRequest
  /\ res = NoResponse
  /\ prepared = NoRequest
  /\ rec = [p \in Reconcilers |-> Idle]
  /\ quizIds = {QuizId}
  /\ userIds = Users
  /\ out = NoOutcome

NextAdmin ==
  \/ SubmitQuizAttempt
  \/ \E caller \in userIds \cup {AdminId} : \E strictQuery, hasRemove \in BOOLEAN :
       \E failAt \in 0..2 : DeleteQuiz(caller, strictQuery, hasRemove, failAt)
  \/ \E failAt \in 0..2 : AdminDeleteQuiz(failAt)
  \/ \E u \in Users : \E failAt \in 0..3 : AdminDeleteUser(u, failAt)
  \/ \E u \in userIds : \E strictQuery, strictPopulate \in BOOLEAN :
       GetUserAnalytics(u, strictQuery, strictPopulate)

SpecAdmin == InitAdmin /\ [][NextAdmin]_vars

\* the author may change the key of a question or the number of questions
\* of the quiz of two questions, and the database may refuse the update of a
\* reconciliation
NextFault ==
  \/ SubmitQuizAttempt
  \/ \E q \in {QuizOfLen(2), QuizRekeyed(2), QuizOfLen(3)} : UpdateQuiz(q)
  \/ \E p \in Reconcilers : \E id \in 1..Len(attempts) : ReconcileRead(p, CreatedBy, id)
  \/ \E p \in Reconcilers : ReconcileWrite(p)
  \/ \E p \in Reconcilers : ReconcileWriteFails(p)

SpecFault == Init /\ [][NextFault]_vars

\* the grading engine alone: any quiz, edited or not, stored or deleted
\* since the client loaded it, and any one submission
InitGrade ==
  /\ quiz \in Quizzes
  /\ \E r \in RequestsFor(quiz) : inbox = <<r>>
  /\ attempts = <<>>
  /\ req = NoRequest
  /\ res = NoResponse
  /\ prepared = NoRequest
  /\ rec = [p \in Reconcilers |-> Idle]
  /\ quizIds \in SUBSET {QuizId}
  /\ userIds = Users
  /\ out = NoOutcome

NextGrade == SubmitQuizAttempt

SpecGrade == InitGrade /\ [][NextGrade]_vars

----------------------------------------------------------------------------
(* Claims about grading and persistence *)

Submitted == res.status = 201

\* the attempt document the last submit stored
StoredAttempt == attempts[res.data._id]

\* C1: for a quiz whose totalMarks is 0, a submission yields percentage = 0
\* in the returned result and in the stored attempt, never NaN.
C1_ZeroTotalMarksPercentageZero ==
  (Submitted /\ prepared.totalMarks = 0) =>
    /\ res.data.percentage = Num(0)
    /\ StoredAttempt.percentage = 0

\* percentage = round(score / totalMarks x 100), 0 when totalMarks is 0
DerivedPercentage(score, totalMarks) ==
  IF totalMarks = 0 THEN 0 ELSE (200 * score + totalMarks) \div (2 * totalMarks)

\* C2: every stored attempt carries totalMarks = the sum of the quiz's marks
\* at submission time and percentage = round(score / totalMarks x 100).
C2_StoredPercentageDerivable ==
  Submitted =>
    /\ "totalMarks" \in DOMAIN StoredAttempt
    /\ StoredAttempt.totalMarks = prepared.totalMarks
    /\ StoredAttempt.percentage
         = DerivedPercentage(StoredAttempt.score, StoredAttempt.totalMarks)

\* the marks of the question a graded response answers
MarksOf(questions, response) == FindQuestion(questions, response.questionId).marks

\* the sum of the marks of the questions of the responses graded correct
RECURSIVE SumCorrectMarks(_, _)
SumCorrectMarks(questions, graded) ==
  IF graded = <<>> THEN 0
  ELSE (IF Head(graded).isCorrect THEN MarksOf(questions, Head(graded)) ELSE 0)
         + SumCorrectMarks(questions, Tail(graded))

RECURSIVE SumMarks(_)
SumMarks(questions) ==
  IF questions = <<>> THEN 0 ELSE Head(questions).marks + SumMarks(Tail(questions))

\* the right answer to a question: the index of an MCQ as a number or as its
\* decimal string, the text of a Fill up to case and surrounding white space
RightAnswer(question, answer) ==
  IF question.type = "MCQ"
    THEN answer \in {question.correctAnswer, Str(NatToString(question.correctAnswer.v))}
    ELSE /\ IsStr(answer)
         /\ trim(toLowerCase(answer.v)) = trim(toLowerCase(question.correctAnswer.v))

\* the request holds exactly one response per question of the quiz, each right
AnsweredAllCorrectly ==
  /\ Len(req.responses) = Len(quiz.questions)
  /\ \A k \in 1..Len(quiz.questions) :
       \E i \in 1..Len(req.responses) :
         /\ req.responses[i].questionId = quiz.questions[k].id
         /\ RightAnswer(quiz.questions[k], req.responses[i].selectedAnswer)

AllCorrectOutcome ==
  /\ res.data.score = SumCorrectMarks(quiz.questions, res.data.responses)
  /\ AnsweredAllCorrectly =>
       /\ res.data.score = SumMarks(quiz.questions)
       /\ res.data.percentage = Num(100)
       /\ \A i \in 1..Len(res.data.responses) : res.data.responses[i].isCorrect

\* C3 as stated: the score is the sum of the marks of the responses graded
\* correct, and one correct response per question gives score = totalMarks,
\* percentage = 100 and every output response correct, for every quiz.
C3_AllCorrect_AnyQuiz == Submitted => AllCorrectOutcome

\* C3 amended: the same for every quiz that has at least one question.
C3_AllCorrect_NonEmptyQuiz ==
  (Submitted /\ quiz.questions # <<>>) => AllCorrectOutcome

sPadParis == <<" ", "p", "a", "r", "i", "s", " ">>

ScenarioAllCorrect ==
  <<[questionId |-> 1, selectedAnswer |-> Num(2)],
    [questionId |-> 2, selectedAnswer |-> Str(sPadParis)]>>

C3_Witness ==
  /\ Submitted
  /\ quiz = QuizOfLen(2)
  /\ req.responses = ScenarioAllCorrect
  /\ res.data.score = 3
  /\ res.data.percentage = Num(100)

ScenarioOneWrong == <<[questionId |-> 1, selectedAnswer |-> Num(0)]>>

\* C4: the graded result reports totalMarks = the sum of the marks of all
\* questions and totalQuestions = their number, whatever was answered; the
\* scenario <<{q1, 0}>> gives score 0, totalMarks 3, totalQuestions 2,
\* percentage 0 and exactly one, incorrect, output response.
C4_ResultReportsTotals ==
  Submitted =>
    /\ res.data.totalQuestions = Len(quiz.questions)
    /\ "totalMarks" \in DOMAIN res.data
    /\ res.data.totalMarks = SumMarks(quiz.questions)
    /\ (quiz = QuizOfLen(2) /\ req.responses = ScenarioOneWrong) =>
         /\ res.data.score = 0
         /\ res.data.totalMarks = 3
         /\ res.data.totalQuestions = 2
         /\ res.data.percentage = Num(0)
         /\ Len(res.data.responses) = 1
         /\ ~res.data.responses[1].isCorrect

IsKnown(response) == response.questionId \in QuestionIds(quiz)

\* C5: a response whose questionId matches no question of the quiz is
\* dropped: the score is the score of the submission without such responses
\* and the output holds exactly the responses to questions of the quiz.
C5_UnknownQuestionDropped ==
  Submitted =>
    /\ res.data.score = Score(quiz.questions, SelectSeq(req.responses, IsKnown))
    /\ Len(res.data.responses) = Len(SelectSeq(req.responses, IsKnown))
    /\ \A i \in 1..Len(res.data.responses) :
         /\ res.data.responses[i].questionId # UnknownId
         /\ res.data.responses[i].questionId
              = SelectSeq(req.responses, IsKnown)[i].questionId

C5_Witness ==
  /\ Submitted
  /\ res.data.score > 0
  /\ \E i \in 1..Len(req.responses) : req.responses[i].questionId = UnknownId

\* the whole of s, white space around it apart, is a decimal integer
IsIntegerString(s) ==
  /\ trim(s) # <<>>
  /\ \A i \in 1..Len(trim(s)) : IsDigit(trim(s)[i])

\* the answer is a number or a numeric string, and its integer value is n
HasIntegerValue(answer, n) ==
  \/ answer = Num(n)
  \/ IsStr(answer) /\ IsIntegerString(answer.v) /\ DigitPrefix(trim(answer.v), 0) = n

\* C6: a response to a MultipleChoice question is graded correct exactly when
\* selectedAnswer is a number or numeric string whose integer value is the
\* correctAnswer; a non-numeric or missing selectedAnswer is graded incorrect.
C6_McqGradedByIntegerValue ==
  Submitted =>
    \A i \in 1..Len(res.data.responses) :
      LET question == FindQuestion(quiz.questions, res.data.responses[i].questionId) IN
        question.type = "MCQ" =>
          (res.data.responses[i].isCorrect
             <=> HasIntegerValue(res.data.responses[i].selectedAnswer,
                                 question.correctAnswer.v))

\* s in upper case, and s with white space put around it
toUpperCase(s) ==
  [i \in 1..Len(s) |->
     IF \E k \in 1..26 : LowerCase[k] = s[i]
       THEN UpperCase[CHOOSE k \in 1..26 : LowerCase[k] = s[i]]
       ELSE s[i]]
Padded(s) == <<" ", "\t">> \o s \o <<"\n">>

\* C7: a response to a FillBlank question is graded correct exactly when the
\* trimmed, lowercased answer equals the trimmed, lowercased correctAnswer,
\* a missing or null answer is incorrect, and changing the case of the
\* answer or the white space around it does not change the grading.
C7_FillGradedUpToCaseAndSpace ==
  Submitted =>
    \A i \in 1..Len(res.data.responses) :
      LET question == FindQuestion(quiz.questions, res.data.responses[i].questionId)
          answer == res.data.responses[i].selectedAnswer
          graded == res.data.responses[i].isCorrect
      IN question.type = "Fill" =>
           /\ (answer \in {Null, Undefined}) => ~graded
           /\ (answer \notin {Null, Undefined}) =>
                (graded <=> (trim(toLowerCase(toString(answer)))
                              = trim(toLowerCase(question.correctAnswer.v))))
           /\ IsStr(answer) =>
                /\ graded = IsCorrect(question, Str(toUpperCase(answer.v)))
                /\ graded = IsCorrect(question, Str(Padded(answer.v)))
                /\ graded = IsCorrect(question, Str(trim(answer.v)))

C7_Witness ==
  /\ Submitted
  /\ \E i \in 1..Len(res.data.responses) :
       /\ FindQuestion(quiz.questions, res.data.responses[i].questionId).type = "Fill"
       /\ res.data.responses[i].selectedAnswer = Str(sPadParis)
       /\ res.data.responses[i].isCorrect

----------------------------------------------------------------------------
(* Claims about result reconciliation *)

Done(p) == rec[p].pc = "done"

\* C8: two reconciliations of the same attempt with no quiz change in
\* between (both read the same questions) return the same percentage and
\* the same totalPossibleScore.
C8_ReconcileTwiceSame ==
  \A p, q \in Reconcilers :
    (Done(p) /\ Done(q) /\ rec[p].id = rec[q].id
       /\ rec[p].questions = rec[q].questions) =>
      /\ rec[p].data.percentage = rec[q].data.percentage
      /\ rec[p].data.totalPossibleScore = rec[q].data.totalPossibleScore

\* a reconciliation that started after another one of the same attempt had
\* finished, the quiz being the same
C8_Witness ==
  \E p, q \in Reconcilers :
    /\ p # q /\ Done(p) /\ Done(q)
    /\ rec[q].after >= 1 /\ rec[p].after = 0
    /\ rec[p].id = rec[q].id
    /\ rec[p].questions = rec[q].questions
    /\ rec[p].data.percentage > 0

\* the questions are those of the submission followed by one question of 5 marks
AddedFiveMarks(questions) ==
  /\ Len(questions) = prepared.totalQuestions + 1
  /\ SumMarks(SubSeq(questions, 1, prepared.totalQuestions)) = prepared.totalMarks
  /\ questions[Len(questions)].marks = 5

\* C9: when a question worth 5 marks was added after the attempt, reconcile
\* returns totalPossibleScore = old total + 5 and a percentage below the
\* one stored at submission (here for an attempt with a positive score),
\* and the record then holds that percentage and that totalMarks.
C9_ReconcileAfterAddedQuestion ==
  \A p \in Reconcilers :
    (/\ Done(p)
     /\ \A o \in Reconcilers \ {p} : rec[o].pc = "idle"
     /\ AddedFiveMarks(rec[p].questions)
     /\ prepared.score > 0) =>
      /\ rec[p].data.totalPossibleScore = prepared.totalMarks + 5
      /\ rec[p].data.percentage < CreateAttempt(prepared).percentage
      /\ rec[p].data.percentage
           = DerivedPercentage(prepared.score, SumMarks(rec[p].questions))
      /\ attempts[rec[p].id].percentage = rec[p].data.percentage
      /\ "totalMarks" \in DOMAIN attempts[rec[p].id]
      /\ attempts[rec[p].id].totalMarks = rec[p].data.totalPossibleScore

\* every reconciliation has finished, all of the same attempt, none of them
\* with a quiz other than the current one
AllReconciledSameQuiz ==
  \A p \in Reconcilers :
    Done(p) /\ rec[p].id = rec[1].id /\ rec[p].questions = quiz.questions

\* C10: whatever the interleaving of the reads and writes of concurrent
\* reconciliations of one attempt, the stored record is the one a single
\* reconciliation leaves and every one of them returns its percentage.
C10_ConcurrentReconcileAsSingle ==
  AllReconciledSameQuiz =>
    LET single == DerivedPercentage(prepared.score, SumMarks(quiz.questions)) IN
      /\ attempts[rec[1].id].percentage = single
      /\ attempts[rec[1].id]
           = [CreateAttempt(prepared) EXCEPT !.percentage = single]
      /\ \A p \in Reconcilers : rec[p].data.percentage = single

\* the reconciliations overlapped: each read before any of them had written
C10_Witness ==
  /\ AllReconciledSameQuiz
  /\ \A p \in Reconcilers : rec[p].after = 0
  /\ attempts[rec[1].id].percentage > 0
  /\ attempts[rec[1].id].percentage # CreateAttempt(prepared).percentage

\* the stored attempt id is the document the submission created, its
\* percentage and totalMarks apart
SameGrading(id) ==
  LET created == CreateAttempt(prepared)
      kept == (DOMAIN created) \ {"percentage", "totalMarks"}
  IN /\ (DOMAIN attempts[id]) \ {"percentage", "totalMarks"} = kept
     /\ \A f \in kept : attempts[id][f] = created[f]

\* C11: reconcile changes only the percentage and totalMarks of the stored
\* attempt: after any number of reconciliations, also with the quiz edited
\* in between, the score, the responses and their isCorrect flags are those
\* the submission stored.
C11_ReconcileKeepsGrading ==
  \A p \in Reconcilers :
    Done(p) =>
      /\ SameGrading(rec[p].id)
      /\ attempts[rec[p].id].score = prepared.score
      /\ \A i \in 1..Len(attempts[rec[p].id].responses) :
           attempts[rec[p].id].responses[i].isCorrect
             = prepared.responses[i].isCorrect

\* a reconciliation with a quiz whose key grades a stored response otherwise
\* than the submission did, and which changed the stored percentage
C11_Witness ==
  \E p \in Reconcilers :
    /\ Done(p)
    /\ attempts[rec[p].id].percentage # CreateAttempt(prepared).percentage
    /\ \E i \in 1..Len(attempts[rec[p].id].responses) :
         LET response == attempts[rec[p].id].responses[i]
             question == FindQuestion(rec[p].questions, response.questionId)
         IN /\ question # Undefined
            /\ response.isCorrect # IsCorrect(question, response.selectedAnswer)

\* C12: when the update of percentage and totalMarks fails during a
\* reconciliation, the request still succeeds and returns the percentage and
\* the totalPossibleScore computed from the stored score and the current
\* quiz; no error is reported.
C12_ReconcileSurvivesFailedUpdate ==
  \A p \in Reconcilers :
    (Done(p) /\ ~rec[p].updated) =>
      /\ rec[p].status = 200
      /\ rec[p].data.totalPossibleScore = SumMarks(rec[p].questions)
      /\ rec[p].data.percentage
           = DerivedPercentage(prepared.score, SumMarks(rec[p].questions))
      /\ rec[p].data.score = prepared.score

\* a failed update after a quiz edit: the returned percentage is not the
\* stored one
C12_Witness ==
  \E p \in Reconcilers :
    /\ Done(p) /\ ~rec[p].updated
    /\ \A o \in Reconcilers \ {p} : rec[o].pc = "idle"
    /\ rec[p].data.percentage > 0
    /\ rec[p].data.percentage # attempts[rec[p].id].percentage

\* the results request p is answered in this step without an attempt found
Rejected(p) == rec[p].pc = "idle" /\ rec'[p].pc = "failed"

\* C13 as stated: reconcile fails with a not-found outcome (404) both for a
\* malformed attempt id and for the id of no stored attempt, and changes no
\* stored record.
C13_RejectedIsNotFound ==
  [][\A p \in Reconcilers :
       Rejected(p) => (rec'[p].status = 404 /\ attempts' = attempts)]_vars

\* C13 amended: reconcile fails with an invalid-input outcome (400) for a
\* malformed attempt id and with not-found (404) for a well-formed id of no
\* stored attempt, and in both cases changes no stored record.
C13_RejectedBadRequestOrNotFound ==
  [][\A p \in Reconcilers :
       Rejected(p) =>
         /\ rec'[p].attemptId = MalformedId => rec'[p].status = 400
         /\ rec'[p].attemptId # MalformedId => rec'[p].status = 404
         /\ attempts' = attempts
         /\ quiz' = quiz]_vars

\* with an attempt stored, one request was rejected for its malformed id
\* and another for an id that no attempt ever had
C13_Witness ==
  /\ \E i \in 1..Len(attempts) : IsStored(attempts[i])
  /\ \E p, q \in Reconcilers :
       /\ rec[p].pc = "failed" /\ rec[p].attemptId = MalformedId
       /\ rec[q].pc = "failed" /\ rec[q].attemptId = MissingId(attempts)

\* a request for the id of an attempt that was deleted is rejected
C13_WitnessDeleted ==
  \E p \in Reconcilers :
    /\ rec[p].pc = "failed" /\ rec[p].status = 404
    /\ rec[p].attemptId = NatToString(1)
    /\ attempts # <<>> /\ ~IsStored(attempts[1])

----------------------------------------------------------------------------
(* Claims about deletion cascades *)

\* the stored attempts that reference quiz id
AttemptsOfQuiz(id) ==
  {i \in 1..Len(attempts) : IsStored(attempts[i]) /\ attempts[i].quiz = id}

\* C14: after a quiz was deleted, by its owner through the quiz endpoint or
\* by an administrator through the admin endpoint, no stored attempt
\* references the deleted quiz.
C14_NoAttemptOfDeletedQuiz ==
  (out.op \in {"deleteQuiz", "adminDeleteQuiz"} /\ out.status = 200) =>
    (QuizId \notin quizIds /\ AttemptsOfQuiz(QuizId) = {})

\* the last response is that of a delete endpoint
IsCascade == out.op \in {"deleteQuiz", "adminDeleteQuiz", "adminDeleteUser"}
Parent == IF out.op = "adminDeleteUser" THEN "user" ELSE "quiz"
ParentStored == IF out.op = "adminDeleteUser" THEN out.id \in userIds ELSE out.id \in quizIds

\* C15: in a quiz or user deletion cascade the dependents are deleted before
\* the parent (the parent's deletion is the last step, run after every other
\* one), and when the deletion of dependents fails the parent is not deleted
\* and the caller gets an error, not a success.
C15_CascadeFailsClosed ==
  IsCascade =>
    /\ Ran(out, Parent) =>
         /\ out.steps[Len(out.steps)] = Parent
         /\ Len(out.steps) = (IF Parent = "user" THEN 3 ELSE 2)
         /\ out.failed = "none"
         /\ ~ParentStored
    /\ out.failed \notin {"none", Parent} =>
         /\ out.status >= 400
         /\ ~Ran(out, Parent)
         /\ ParentStored
    /\ out.status = 200 => out.failed = "none"

\* the deletion of a user failed at the attempts, after the user's quiz was
\* deleted: the user is still there and the answer is an error
C15_Witness ==
  /\ out.op = "adminDeleteUser"
  /\ out.failed = "attempts"
  /\ out.status = 500
  /\ QuizId \notin quizIds
  /\ out.id \in userIds
  /\ \E i \in 1..Len(attempts) : IsStored(attempts[i]) /\ attempts[i].user = out.id

----------------------------------------------------------------------------
(* Claims about the outcome of a submission *)

\* the submission was answered
Answered == req # NoRequest

\* C16: a submission never fails because of a malformed individual
\* response: for an existing quiz and any sequence of responses, entries
\* that are null or name an unknown question included, submit succeeds.
C16_MalformedResponseTolerated ==
  (Answered /\ "responses" \in DOMAIN req /\ QuizId \in quizIds) => res.status = 201

\* the head of the inbox is answered in this step
Answers1 == inbox # <<>> /\ inbox' = Tail(inbox)

\* C17: each accepted submission creates exactly one attempt record, the
\* one of its grading, and a submission with no responses array or for a
\* quiz id that does not resolve is rejected (400, 404 or another error)
\* before grading and creates no attempt record.
C17_OneRecordPerAcceptedSubmission ==
  [][Answers1 =>
       /\ res'.status = 201 =>
            /\ attempts' = Append(attempts, CreateAttempt(prepared'))
            /\ prepared'.responses = ProcessedResponses(quiz.questions, req'.responses)
       /\ res'.status # 201 => (attempts' = attempts /\ prepared' = prepared)
       /\ ("responses" \notin DOMAIN req' /\ req'.user \in userIds) => res'.status = 400
       /\ QuizId \notin quizIds => res'.status \in {400, 401, 404, 500}]_vars

\* an accepted submission and its one record
C17_Witness ==
  /\ Answered /\ res.status = 201
  /\ Len(req.responses) = MaxResponses
  /\ Len(attempts) = 1
  /\ attempts[1].score > 0

\* a submission without responses array rejected with no record
C17_WitnessNoResponses ==
  /\ Answered /\ "responses" \notin DOMAIN req
  /\ res.status = 400 /\ attempts = <<>>

\* a well-formed submission for a quiz that is gone rejected with no record
C17_WitnessNoQuiz ==
  /\ Answered /\ "responses" \in DOMAIN req /\ req.responses # <<>>
  /\ QuizId \notin quizIds
  /\ res.status = 404 /\ attempts = <<>>

----------------------------------------------------------------------------
(* Claims about the analytics of a user *)

\* this step answers an analytics request
Aggregates == out'.op = "analytics" /\ inbox' = inbox

\* the stored attempts of user u
AttemptsOfUser(u) ==
  {i \in 1..Len(attempts) : IsStored(attempts[i]) /\ attempts[i].user = u}

RECURSIVE SumPercentages(_)
SumPercentages(ids) ==
  IF ids = {} THEN 0
  ELSE LET i == CHOOSE j \in ids : TRUE IN
         attempts[i].percentage + SumPercentages(ids \ {i})

\* num / den with two decimals, as a string
Fixed2(num, den) ==
  LET hundredths == (200 * num + den) \div (2 * den) IN
    NatToString(hundredths \div 100) \o <<".">>
      \o <<Digits[((hundredths \div 10) % 10) + 1], Digits[(hundredths % 10) + 1]>>

\* C18: aggregate(userId) reports totalAttempts = the number of stored
\* attempts whose user is userId and an average = the mean of the
\* percentages of those attempts; attempts of other users are not counted.
C18_AggregateOfOwnAttempts ==
  [][Aggregates =>
       /\ out'.status = 200
       /\ out'.data.totalAttempts = Cardinality(AttemptsOfUser(out'.user))
       /\ AttemptsOfUser(out'.user) # {} =>
            out'.data.averageScore
              = Str(Fixed2(SumPercentages(AttemptsOfUser(out'.user)),
                           Cardinality(AttemptsOfUser(out'.user))))]_vars

\* the response says in so many words that there is no attempt
HasEmptyStateSignal(data) == "message" \in DOMAIN data

\* C19: aggregate for a user with no attempt yields totalAttempts = 0, an
\* average of 0 that is not NaN, and an explicit empty-state signal.
C19_AggregateOfNoAttempts ==
  [][(Aggregates /\ AttemptsOfUser(out'.user) = {}) =>
       /\ out'.status = 200
       /\ out'.data.totalAttempts = 0
       /\ out'.data.averageScore = Num(0)
       /\ HasEmptyStateSignal(out'.data)]_vars

\* C20: aggregate succeeds when attempts of the user reference a quiz that
\* no longer exists; those attempts are in no per-subject group.
C20_AggregateToleratesDeletedQuiz ==
  [][(/\ Aggregates
      /\ QuizId \notin quizIds
      /\ \E i \in AttemptsOfUser(out'.user) : attempts[i].quiz = QuizId) =>
       /\ out'.status = 200
       /\ out'.data.subjectPerformance = <<>>]_vars

\* the number of entries the digest of user u must have
DigestSize(u) ==
  IF Cardinality(AttemptsOfUser(u)) < RecentLimit
    THEN Cardinality(AttemptsOfUser(u)) ELSE RecentLimit

\* C21: the recent-activity digest of aggregate consists of the user's 5
\* attempts with the latest completedAt, all of them when there are fewer,
\* in chronological order.
C21_DigestOfLatestAttempts ==
  [][Aggregates =>
       /\ out'.status = 200
       /\ Len(out'.data.recentActivity) = DigestSize(out'.user)
       /\ \A i \in 1..Len(out'.data.recentActivity) :
            /\ \E j \in AttemptsOfUser(out'.user) :
                 out'.data.recentActivity[i].score = attempts[j].score
            /\ i > 1 => out'.data.recentActivity[i - 1].completedAt
                          < out'.data.recentActivity[i].completedAt]_vars

\* ---------------------------------------------------------------------
\* Saving a quiz: QuizSchema (validators and pre('save') normalisation),
\* createQuiz and updateQuiz
\* ---------------------------------------------------------------------
MaxBodyQuestions == 2

Bool(b) == [t |-> "boolean", v |-> b]
IsBool(x) == x.t = "boolean"
sTrue == <<"t", "r", "u", "e">>
sFalse == <<"f", "a", "l", "s", "e">>
Options4 == <<"a", "b", "c", "d">>

\* Questions as an author sends them in req.body.questions. A record without
\* an options field is a question sent without options.
QuestionInputs ==
  {[type |-> "MCQ", options |-> Options4, correctAnswer |-> Num(2), marks |-> 1],
   [type |-> "MCQ", correctAnswer |-> Num(1), marks |-> 1],
   [type |-> "MCQ", options |-> <<"a", "b">>, correctAnswer |-> Num(1), marks |-> 1],
   [type |-> "MCQ", options |-> <<"a", "b", "c", "d", "e">>, correctAnswer |-> Num(3), marks |-> 1],
   [type |-> "MCQ", options |-> Options4, correctAnswer |-> Num(4), marks |-> 1],
   [type |-> "MCQ", options |-> <<"a", "b">>, correctAnswer |-> Num(7), marks |-> 1],
   [type |-> "Fill", correctAnswer |-> Str(sParis), marks |-> 2],
   [type |-> "Fill", correctAnswer |-> Str(<<" ">>), marks |-> 2],
   [type |-> "Fill", correctAnswer |-> Str(<<>>), marks |-> 2],
   [type |-> "TrueFalse", correctAnswer |-> Bool(TRUE), marks |-> 1],
   [type |-> "TrueFalse", correctAnswer |-> Bool(FALSE), marks |-> 1],
   [type |-> "TrueFalse", correctAnswer |-> Str(<<"T", "r", "u", "e">>), marks |-> 1],
   [type |-> "TrueFalse", correctAnswer |-> Str(<<"F", "A", "L", "S", "E">>), marks |-> 1]}

\* the questions that bodies of several questions are made of: a valid
\* MCQ, a valid Fill and an MCQ failing two validators
MixInputs ==
  {[type |-> "MCQ", options |-> Options4, correctAnswer |-> Num(2), marks |-> 1],
   [type |-> "Fill", correctAnswer |-> Str(sParis), marks |-> 2],
   [type |-> "MCQ", options |-> <<"a", "b">>, correctAnswer |-> Num(7), marks |-> 1]}

QuizBodies ==
  {<<>>} \cup {<<q>> : q \in QuestionInputs}
    \cup UNION {[1..n -> MixInputs] : n \in 2..MaxBodyQuestions}

\* options: an array path, [] when the body gives none
OptionsOf(question) ==
  IF "options" \in DOMAIN question THEN question.options ELSE <<>>

\* questions.type: enum ['MCQ', 'Fill']
ValidType(question) == question.type \in {"MCQ", "Fill"}

\* questions.options: required for MCQ, validator of lines 39-45
ValidOptions(question) ==
  IF question.type = "MCQ" THEN Len(OptionsOf(question)) = 4
  ELSE Len(OptionsOf(question)) = 0

\* questions.correctAnswer: validator of lines 58-63
ValidCorrectAnswer(question) ==
  LET value == question.correctAnswer IN
    IF question.type = "MCQ"
    THEN IsNum(value) /\ value.v >= 0 /\ value.v < 4
    ELSE IsStr(value) /\ Len(trim(value.v)) > 0

\* questions.marks: min 1
ValidMarks(question) == question.marks >= 1

\* the paths of one question that fail validation
QuestionErrors(question) ==
  {f \in {"type", "options", "correctAnswer", "marks"} :
     \/ f = "type" /\ ~ValidType(question)
     \/ f = "options" /\ ~ValidOptions(question)
     \/ f = "correctAnswer" /\ ~ValidCorrectAnswer(question)
     \/ f = "marks" /\ ~ValidMarks(question)}

\* error.errors of the ValidationError: one entry per failing path
ValidationErrors(questions) ==
  {<<i, f>> : i \in 1..Len(questions), f \in {"type", "options", "correctAnswer", "marks"}}
    \cap UNION {{<<i, f>> : f \in QuestionErrors(questions[i])} : i \in 1..Len(questions)}

\* options padded with '' or cut to exactly 4, lines 131-139
PadTo4(options) ==
  [i \in 1..4 |-> IF i <= Len(options) THEN options[i] ELSE ""]

\* QuizSchema.pre('save'), lines 93-143, for one question
NormalizeQuestion(question) ==
  CASE question.type = "TrueFalse" ->
         LET ca == question.correctAnswer
             lower == IF IsStr(ca) THEN toLowerCase(ca.v) ELSE <<>>
             mapped == IF IsBool(ca) THEN Num(IF ca.v THEN 0 ELSE 1)
                       ELSE IF IsStr(ca) /\ lower = sTrue THEN Num(0)
                       ELSE IF IsStr(ca) /\ lower = sFalse THEN Num(1)
                       ELSE ca
         IN [type |-> "TrueFalse", options |-> <<"True", "False">>,
             correctAnswer |-> mapped, marks |-> question.marks]
    [] question.type = "Fill" ->
         [type |-> "Fill", correctAnswer |-> question.correctAnswer,
          marks |-> question.marks]
    [] question.type = "MCQ" ->
         [type |-> "MCQ", options |-> PadTo4(OptionsOf(question)),
          correctAnswer |-> IF IsNum(question.correctAnswer)
                            THEN question.correctAnswer
                            ELSE parseInt(question.correctAnswer),
          marks |-> question.marks]
    [] OTHER -> question

\* the stored questions: subdocument i gets its _id
StoredQuestions(questions) ==
  [i \in 1..Len(questions) |->
     [id |-> i] @@ NormalizeQuestion(questions[i])]

\* createQuiz: Quiz.create validates the document and only then runs the
\* pre('save') hook; a ValidationError is answered 400 with its messages
CreateQuiz(body) ==
  /\ QuizId \notin quizIds
  /\ IF Len(body) = 0
     THEN /\ out' = [op |-> "createQuiz", status |-> 400, errors |-> {}]
          /\ UNCHANGED <<quiz, quizIds>>
     ELSE IF ValidationErrors(body) # {}
     THEN /\ out' = [op |-> "createQuiz", status |-> 400,
                     errors |-> ValidationErrors(body)]
          /\ UNCHANGED <<quiz, quizIds>>
     ELSE /\ quiz' = [questions |-> StoredQuestions(body)]
          /\ quizIds' = quizIds \cup {QuizId}
          /\ out' = [op |-> "createQuiz", status |-> 201, errors |-> {}]
  /\ UNCHANGED <<attempts, inbox, req, res, prepared, rec, userIds>>

\* the questions as findByIdAndUpdate casts them: no pre('save') hook runs
CastQuestions(questions) ==
  [i \in 1..Len(questions) |->
     [id |-> i, type |-> questions[i].type, options |-> OptionsOf(questions[i]),
      correctAnswer |-> questions[i].correctAnswer, marks |-> questions[i].marks]]

\* updateQuiz with a body that replaces the questions: runValidators
\* validates every element of the new array, an error is answered 500 with
\* error.message, which names every failing path
UpdateQuizBody(body) ==
  /\ QuizId \in quizIds
  /\ IF ValidationErrors(body) # {}
     THEN /\ out' = [op |-> "updateQuiz", status |-> 500,
                     errors |-> ValidationErrors(body)]
          /\ UNCHANGED quiz
     ELSE /\ quiz' = [questions |-> CastQuestions(body)]
          /\ out' = [op |-> "updateQuiz", status |-> 200, errors |-> {}]
  /\ UNCHANGED <<attempts, inbox, req, res, prepared, rec, quizIds, userIds>>

\* updateQuiz with the body {"questions.<i>.type": type}: update validators
\* run on the paths of the update only, here the enum of questions.type
UpdateQuestionType(i, type) ==
  /\ QuizId \in quizIds
  /\ i \in 1..Len(quiz.questions)
  /\ IF type \notin {"MCQ", "Fill"}
     THEN /\ out' = [op |-> "updateQuiz", status |-> 500, errors |-> {<<i, "type">>}]
          /\ UNCHANGED quiz
     ELSE /\ quiz' = [questions |->
                        [quiz.questions EXCEPT ![i] =
                           [f \in DOMAIN @ |-> IF f = "type" THEN type ELSE @[f]]]]
          /\ out' = [op |-> "updateQuiz", status |-> 200, errors |-> {}]
  /\ UNCHANGED <<attempts, inbox, req, res, prepared, rec, quizIds, userIds>>

InitQuiz ==
  /\ quiz = QuizOfLen(0)
  /\ quizIds = {}
  /\ userIds = Users
  /\ attempts = <<>>
  /\ inbox = <<>>
  /\ req = NoRequest
  /\ res = NoResponse
  /\ prepared = NoRequest
  /\ rec = [p \in Reconcilers |-> Idle]
  /\ out = NoOutcome

NextQuiz ==
  \/ \E body \in QuizBodies : CreateQuiz(body)
  \/ \E body \in QuizBodies : UpdateQuizBody(body)
  \/ \E i \in 1..MaxBodyQuestions, type \in {"MCQ", "Fill", "TrueFalse"} :
       UpdateQuestionType(i, type)

SpecQuiz == InitQuiz /\ [][NextQuiz]_vars

\* a body of MultipleChoice questions that are valid but for the length of
\* their options
LengthOnly(body) ==
  /\ Len(body) > 0
  /\ \A i \in 1..Len(body) :
       /\ body[i].type = "MCQ"
       /\ ValidCorrectAnswer(body[i])
       /\ ValidMarks(body[i])
  /\ \E i \in 1..Len(body) : Len(OptionsOf(body[i])) # 4

\* C22: saving a MultipleChoice question whose options are missing, shorter
\* or longer than 4 never fails on length: the quiz is created and every
\* question is stored with exactly 4 options, the given ones padded with
\* empty strings or truncated.
C22_OptionsPaddedOrTruncated ==
  [][\A body \in QuizBodies :
       (LengthOnly(body) /\ CreateQuiz(body)) =>
         /\ out'.status = 201
         /\ \A i \in 1..Len(body) :
              /\ Len(quiz'.questions[i].options) = 4
              /\ \A k \in 1..4 :
                   quiz'.questions[i].options[k] =
                     IF k <= Len(OptionsOf(body[i])) THEN OptionsOf(body[i])[k] ELSE ""]_vars

\* a body whose questions are valid or of the legacy type, one at least of
\* the legacy type
IsLegacy(question) ==
  /\ question.type = "TrueFalse"
  /\ \/ IsBool(question.correctAnswer)
     \/ IsStr(question.correctAnswer)
          /\ toLowerCase(question.correctAnswer.v) \in {sTrue, sFalse}
LegacyBody(body) ==
  /\ Len(body) > 0
  /\ \A i \in 1..Len(body) : IsLegacy(body[i]) \/ QuestionErrors(body[i]) = {}
  /\ \E i \in 1..Len(body) : IsLegacy(body[i])

\* the index a legacy answer stands for: 0 for true, 1 for false
LegacyIndex(ca) ==
  IF IsBool(ca) THEN (IF ca.v THEN 0 ELSE 1)
  ELSE IF toLowerCase(ca.v) = sTrue THEN 0 ELSE 1

\* C23: a question of the legacy True/False type is accepted and stored as
\* a MultipleChoice question with options ['True', 'False'] and its
\* correctAnswer mapped to 0 for true and 1 for false, for boolean answers
\* and for string answers in any letter case.
C23_LegacyTrueFalseAccepted ==
  [][\A body \in QuizBodies :
       (LegacyBody(body) /\ CreateQuiz(body)) =>
         /\ out'.status = 201
         /\ \A i \in 1..Len(body) :
              IsLegacy(body[i]) =>
                /\ quiz'.questions[i].type = "MCQ"
                /\ quiz'.questions[i].options = <<"True", "False">>
                /\ quiz'.questions[i].correctAnswer = Num(LegacyIndex(body[i].correctAnswer))]_vars

\* a question whose correctAnswer the schema refuses: outside 0..3 for a
\* MultipleChoice question, empty for a FillBlank question
BadAnswer(question) ==
  /\ question.type \in {"MCQ", "Fill"}
  /\ ~ValidCorrectAnswer(question)

\* a stored question as the schema wants it
WellFormed(question) ==
  CASE question.type = "MCQ" ->
         /\ Len(OptionsOf(question)) = 4
         /\ IsNum(question.correctAnswer)
         /\ question.correctAnswer.v \in 0..3
    [] question.type = "Fill" ->
         /\ IsStr(question.correctAnswer)
         /\ Len(trim(question.correctAnswer.v)) > 0
         /\ OptionsOf(question) = <<>>
    [] OTHER -> FALSE

StoredWellFormed ==
  QuizId \in quizIds => \A i \in 1..Len(quiz.questions) : WellFormed(quiz.questions[i])

\* C24: creating or updating a quiz with a MultipleChoice question whose
\* correctAnswer is outside 0..3 or a FillBlank question whose correctAnswer
\* is empty fails with a validation error that lists every violated field
\* and stores nothing; hence after every step each stored MultipleChoice
\* question has 4 options and a correctAnswer in 0..3 and each stored
\* FillBlank question a non-empty string correctAnswer and no options.
C24_StoredQuestionsWellFormed ==
  [][/\ \A body \in QuizBodies :
          ((\E i \in 1..Len(body) : BadAnswer(body[i]))
             /\ (CreateQuiz(body) \/ UpdateQuizBody(body))) =>
            /\ out'.status >= 400
            /\ out'.errors = ValidationErrors(body)
            /\ \A i \in 1..Len(body) :
                 BadAnswer(body[i]) => <<i, "correctAnswer">> \in out'.errors
            /\ quiz' = quiz /\ quizIds' = quizIds
     /\ StoredWellFormed']_vars

\* the first half of C24 alone
C24_RejectedBodies ==
  [][\A body \in QuizBodies :
          ((\E i \in 1..Len(body) : BadAnswer(body[i]))
             /\ (CreateQuiz(body) \/ UpdateQuizBody(body))) =>
            /\ out'.status >= 400
            /\ out'.errors = ValidationErrors(body)
            /\ quiz' = quiz /\ quizIds' = quizIds]_vars

\* ---------------------------------------------------------------------
\* Submissions with and without a token
\* ---------------------------------------------------------------------
InitAnon ==
  /\ quiz \in {QuizOfLen(1), QuizOfLen(2)}
  /\ inbox \in [1..NumSubmissions ->
                  {[r EXCEPT !.user = u] : r \in ScenarioRequests,
                                           u \in Users \cup {Anonymous}}]
  /\ attempts = <<>>
  /\ req = NoRequest
  /\ res = NoResponse
  /\ prepared = NoRequest
  /\ rec = [p \in Reconcilers |-> Idle]
  /\ quizIds = {QuizId}
  /\ userIds = Users
  /\ out = NoOutcome

NextAnon == SubmitQuizAttempt

SpecAnon == InitAnon /\ [][NextAnon]_vars

\* C25: a submission without an authenticated user is still graded, and the
\* attempt is stored under a fresh identity that is no user's id and differs
\* from the identity of every other stored attempt.
C25_AnonymousAttemptStored ==
  [][(inbox' # inbox /\ req'.user = Anonymous) =>
       /\ res'.status = 201
       /\ Len(attempts') = Len(attempts) + 1
       /\ attempts'[Len(attempts')].user \notin userIds
       /\ \A j \in 1..Len(attempts) :
            attempts[j].user # attempts'[Len(attempts')].user]_vars

\* C26: the results of an attempt are returned only to a request that
\* carries a valid authentication token; a request without one is refused.
C26_ResultsArePrivate ==
  [][\A p \in Reconcilers :
       (rec[p].pc = "read" /\ rec'[p].pc = "done") =>
         IF rec[p].caller \in userIds
         THEN rec'[p].status = 200
         ELSE rec'[p].status = 401]_vars

\* C27: for every quiz and every sequence of responses, also one answering
\* a question more than once, the graded score satisfies
\* 0 <= score <= totalMarks and the percentage lies between 0 and 100.
C27_ScoreWithinTotal ==
  Submitted =>
    /\ res.data.score >= 0
    /\ res.data.score <= TotalMarks(quiz.questions)
    /\ IsNum(res.data.percentage)
    /\ res.data.percentage.v \in 0..100
    /\ StoredAttempt.score <= TotalMarks(quiz.questions)
    /\ StoredAttempt.percentage \in 0..100

\* every started reconciliation has finished, all of the same attempt, and
\* one of them at least read the quiz as it is now
AllReconciledSomeFresh ==
  /\ \A p \in Reconcilers : Done(p) /\ rec[p].id = rec[1].id
  /\ \E p \in Reconcilers : rec[p].questions = quiz.questions

\* C28: when quiz updates run concurrently with reconciliations of an
\* attempt, then once every started operation has finished the percentage and
\* totalMarks stored on the attempt are those derived from the quiz's final
\* questions: a reconciliation that read the quiz before an update does not
\* overwrite the result of one that read it after.
C28_FinalQuizWins ==
  AllReconciledSomeFresh =>
    /\ attempts[rec[1].id].percentage
         = DerivedPercentage(prepared.score, SumMarks(quiz.questions))
    /\ "totalMarks" \in DOMAIN attempts[rec[1].id]
    /\ attempts[rec[1].id].totalMarks = SumMarks(quiz.questions)

\* every stored attempt references a stored quiz
NoDanglingAttempt ==
  \A i \in 1..Len(attempts) : IsStored(attempts[i]) => attempts[i].quiz \in quizIds

\* C29: after an administrator deleted a user no stored attempt references
\* a quiz that no longer exists: the attempts of other users on the quizzes
\* of the deleted user are removed with those quizzes (attempts left behind
\* by an earlier quiz deletion apart).
C29_UserDeletionLeavesNoDanglingAttempt ==
  [][(out'.op = "adminDeleteUser" /\ out'.status = 200 /\ inbox' = inbox) =>
       (NoDanglingAttempt => NoDanglingAttempt')]_vars

\* C30: the attempt returned by reconcile is consistent in itself: its
\* totalMarks equals its totalPossibleScore and its percentage is
\* round(score / totalMarks x 100), also on the first reconcile after the
\* marks of the quiz changed.
C30_ReturnedAttemptConsistent ==
  \A p \in Reconcilers :
    (Done(p) /\ rec[p].status = 200) =>
      /\ rec[p].data.totalMarks = Num(rec[p].data.totalPossibleScore)
      /\ rec[p].data.percentage
           = DerivedPercentage(rec[p].data.score, rec[p].data.totalPossibleScore)

\* the percentage half of C30 alone
C30_ReturnedPercentageDerived ==
  \A p \in Reconcilers :
    (Done(p) /\ rec[p].status = 200) =>
      rec[p].data.percentage
        = DerivedPercentage(rec[p].data.score, rec[p].data.totalPossibleScore)
====
